---- MODULE Spec2Model ----
(***************************************************************************)
(* Model of the tuple codec (db/src/storage/tuple.rs) and of the response  *)
(* framing documented in db/src/tcp/proto.rs.                              *)
(*                                                                         *)
(* Representation:                                                         *)
(*   - a byte is a number in 0..255, a buffer is a sequence of bytes;      *)
(*   - an i128 is a mathematical integer kept in sign-magnitude form,      *)
(*     [neg, mag], mag being 16 base-256 digits, most significant first    *)
(*     (TLC's integers are too narrow for 64-bit values);                  *)
(*   - a String is a sequence of Unicode scalar values; as_bytes and       *)
(*     from_utf8 are the UTF-8 conversions;                                *)
(*   - a Value is [kind, v], a DataType is [tag, max].                     *)
(***************************************************************************)
EXTENDS Integers, Sequences, FiniteSets, TLC

VARIABLES schema, rows, buf, pos, out, last

vars == <<schema, rows, buf, pos, out, last>>

(***************************************************************************)
(* Bytes and buffers                                                       *)
(***************************************************************************)
I128Bytes == 16

UsizeBytes == 8

U8Max == 255

Min(a, b) == IF a < b THEN a ELSE b

Zeros(n) == [i \in 1..n |-> 0]

Fill(n, b) == [i \in 1..n |-> b]

\* buf[from+1 ..] of a slice, 0-based offset as in Rust's buf[from..]
SliceFrom(s, from) == SubSeq(s, from + 1, Len(s))

\* buf[.. to]
SliceTo(s, to) == SubSeq(s, 1, to)

\* Ord for [u8]: lexicographic, a strict prefix is smaller
LexLess(a, b) ==
  \/ \E i \in 1..Min(Len(a), Len(b)) :
        /\ a[i] < b[i]
        /\ \A j \in 1..(i - 1) : a[j] = b[j]
  \/ /\ Len(a) < Len(b)
     /\ \A j \in 1..Len(a) : a[j] = b[j]

(***************************************************************************)
(* i128 in sign-magnitude form                                             *)
(***************************************************************************)
Pad(bytes) == Zeros(I128Bytes - Len(bytes)) \o bytes

Pos(bytes) == [neg |-> FALSE, mag |-> Pad(bytes)]

Neg(bytes) == [neg |-> TRUE, mag |-> Pad(bytes)]

NumLess(a, b) ==
  IF a.neg
    THEN IF b.neg THEN LexLess(b.mag, a.mag) ELSE TRUE
    ELSE IF b.neg THEN FALSE ELSE LexLess(a.mag, b.mag)

NumLeq(a, b) == a = b \/ NumLess(a, b)

\* bitwise complement of every byte
Invert(bytes) == [i \in 1..Len(bytes) |-> U8Max - bytes[i]]

\* bytes + 1 modulo 256^Len(bytes)
AddOne(bytes) ==
  [i \in 1..Len(bytes) |->
     IF \A j \in (i + 1)..Len(bytes) : bytes[j] = U8Max
       THEN (bytes[i] + 1) % 256
       ELSE bytes[i]]

\* two's complement negation modulo 2^128
Negate(bytes) == AddOne(Invert(bytes))

\* i128::to_be_bytes: two's complement, most significant byte first
to_be_bytes(num) == IF num.neg THEN Negate(num.mag) ELSE num.mag

\* i128::from_be_bytes
from_be_bytes(bytes) ==
  IF bytes[1] >= 128
    THEN [neg |-> TRUE, mag |-> Negate(bytes)]
    ELSE [neg |-> FALSE, mag |-> bytes]

I32_MIN == Neg(<<128, 0, 0, 0>>)

I32_MAX == Pos(<<127, 255, 255, 255>>)

U32_MAX == Pos(<<255, 255, 255, 255>>)

I64_MIN == Neg(<<128, 0, 0, 0, 0, 0, 0, 0>>)

I64_MAX == Pos(<<127, 255, 255, 255, 255, 255, 255, 255>>)

U64_MAX == Pos(<<255, 255, 255, 255, 255, 255, 255, 255>>)

Zero == Pos(<<0>>)

(***************************************************************************)
(* usize little endian conversions (length prefixes)                       *)
(***************************************************************************)
RECURSIVE LeDigits(_, _)
LeDigits(n, width) ==
  IF width = 0 THEN <<>> ELSE <<n % 256>> \o LeDigits(n \div 256, width - 1)

\* usize::to_le_bytes
usize_to_le_bytes(n) == LeDigits(n, UsizeBytes)

RECURSIVE LeValue(_)
LeValue(bytes) ==
  IF Len(bytes) = 0 THEN 0 ELSE bytes[1] + 256 * LeValue(Tail(bytes))

\* usize::from_le_bytes reading the lowest byte alone
usize_from_le_bytes_low(bytes) == bytes[1]

\* usize::from_le_bytes
usize_from_le_bytes(bytes) == LeValue(bytes)

(***************************************************************************)
(* UTF-8                                                                   *)
(***************************************************************************)
\* the UTF-8 encoding of one scalar value
Utf8Char(c) ==
  IF c < 128 THEN <<c>>
  ELSE IF c < 2048 THEN <<192 + (c \div 64), 128 + (c % 64)>>
  ELSE IF c < 65536
    THEN <<224 + (c \div 4096), 128 + ((c \div 64) % 64), 128 + (c % 64)>>
  ELSE <<240 + (c \div 262144), 128 + ((c \div 4096) % 64),
         128 + ((c \div 64) % 64), 128 + (c % 64)>>

\* String::as_bytes: the encodings of the characters, in order
\* (computed by halves, which keeps the evaluation shallow)
RECURSIVE as_bytes(_)
as_bytes(string) ==
  IF Len(string) = 0 THEN <<>>
  ELSE IF Len(string) = 1 THEN Utf8Char(string[1])
  ELSE LET half == Len(string) \div 2 IN
       as_bytes(SliceTo(string, half)) \o as_bytes(SliceFrom(string, half))

IsCont(b) == b >= 128 /\ b < 192

\* number of bytes announced by a leading byte, 0 when it cannot lead
Utf8Width(b) ==
  IF b < 128 THEN 1
  ELSE IF b >= 194 /\ b < 224 THEN 2
  ELSE IF b >= 224 /\ b < 240 THEN 3
  ELSE IF b >= 240 /\ b < 245 THEN 4
  ELSE 0

Utf8Scalar(bytes, w) ==
  IF w = 1 THEN bytes[1]
  ELSE IF w = 2 THEN (bytes[1] - 192) * 64 + (bytes[2] - 128)
  ELSE IF w = 3
    THEN (bytes[1] - 224) * 4096 + (bytes[2] - 128) * 64 + (bytes[3] - 128)
  ELSE (bytes[1] - 240) * 262144 + (bytes[2] - 128) * 4096
       + (bytes[3] - 128) * 64 + (bytes[4] - 128)

\* overlong forms, surrogates and values above U+10FFFF are not UTF-8
Utf8ScalarOk(c, w) ==
  /\ w = 2 => c >= 128
  /\ w = 3 => c >= 2048 /\ ~(c >= 55296 /\ c < 57344)
  /\ w = 4 => c >= 65536 /\ c < 1114112

Utf8Error == [ok |-> FALSE, string |-> <<>>]

\* the sequential decoder: one character after the other
RECURSIVE Utf8Decode(_)
Utf8Decode(bytes) ==
  IF Len(bytes) = 0 THEN [ok |-> TRUE, string |-> <<>>]
  ELSE
    LET w == Utf8Width(bytes[1]) IN
    IF w = 0 \/ w > Len(bytes) \/ (\E k \in 2..w : ~IsCont(bytes[k]))
      THEN Utf8Error
    ELSE IF ~Utf8ScalarOk(Utf8Scalar(bytes, w), w) THEN Utf8Error
    ELSE
      LET rest == Utf8Decode(SliceFrom(bytes, w)) IN
      IF rest.ok
        THEN [ok |-> TRUE, string |-> <<Utf8Scalar(bytes, w)>> \o rest.string]
        ELSE rest

\* String::from_utf8: [ok, string]. A long input is cut at the first
\* character boundary at or after its middle and the halves are decoded
\* apart (no character has more than 3 continuation bytes, so 4 bytes
\* without a boundary are no UTF-8); this keeps the evaluation shallow.
RECURSIVE from_utf8(_)
from_utf8(bytes) ==
  IF Len(bytes) <= 4 THEN Utf8Decode(bytes)
  ELSE
    LET mid == Len(bytes) \div 2
        bounds == {i \in mid..(mid + 3) : ~IsCont(bytes[i])}
    IN IF bounds = {} THEN Utf8Error
       ELSE
         LET cut == CHOOSE i \in bounds : \A j \in bounds : i <= j
             left == from_utf8(SliceTo(bytes, cut - 1))
         IN IF ~left.ok THEN Utf8Error
            ELSE
              LET right == from_utf8(SliceFrom(bytes, cut - 1)) IN
              IF ~right.ok THEN Utf8Error
              ELSE [ok |-> TRUE, string |-> left.string \o right.string]

(***************************************************************************)
(* sql::statement::{DataType, Value}, db::Schema                           *)
(***************************************************************************)
DtBool == [tag |-> "Bool", max |-> 0]

DtInt == [tag |-> "Int", max |-> 0]

DtUnsignedInt == [tag |-> "UnsignedInt", max |-> 0]

DtBigInt == [tag |-> "BigInt", max |-> 0]

DtUnsignedBigInt == [tag |-> "UnsignedBigInt", max |-> 0]

Varchar(max_characters) == [tag |-> "Varchar", max |-> max_characters]

IntegerTags == {"Int", "UnsignedInt", "BigInt", "UnsignedBigInt"}

ValueBool(b) == [kind |-> "Bool", v |-> b]

ValueNumber(num) == [kind |-> "Number", v |-> num]

ValueString(string) == [kind |-> "String", v |-> string]

Column(name, data_type) == [name |-> name, data_type |-> data_type]

(***************************************************************************)
(* storage/tuple.rs                                                        *)
(***************************************************************************)
byte_length_of_integer_type(data_type) ==
  CASE data_type.tag \in {"Int", "UnsignedInt"} -> 4
    [] data_type.tag \in {"BigInt", "UnsignedBigInt"} -> 8

\* utf8_length_prefix_bytes with its ranges closed at the upper end
utf8_length_prefix_bytes_inclusive(max_characters) ==
  IF max_characters >= 0 /\ max_characters <= 64 THEN 1
  ELSE IF max_characters > 64 /\ max_characters <= 16384 THEN 2
  ELSE 4

utf8_length_prefix_bytes(max_characters) ==
  IF max_characters >= 0 /\ max_characters < 64 THEN 1
  ELSE IF max_characters >= 64 /\ max_characters < 16384 THEN 2
  ELSE 4

\* integer_is_within_range taking the unsigned maximum as the upper bound of
\* the signed types too
integer_is_within_range_wide(integer, integer_type) ==
  LET bounds ==
        CASE integer_type.tag = "Int" -> <<I32_MIN, U32_MAX>>
          [] integer_type.tag = "UnsignedInt" -> <<Zero, U32_MAX>>
          [] integer_type.tag = "BigInt" -> <<I64_MIN, U64_MAX>>
          [] integer_type.tag = "UnsignedBigInt" -> <<Zero, U64_MAX>>
  IN NumLeq(bounds[1], integer) /\ NumLeq(integer, bounds[2])

integer_is_within_range(integer, integer_type) ==
  LET bounds ==
        CASE integer_type.tag = "Int" -> <<I32_MIN, I32_MAX>>
          [] integer_type.tag = "UnsignedInt" -> <<Zero, U32_MAX>>
          [] integer_type.tag = "BigInt" -> <<I64_MIN, I64_MAX>>
          [] integer_type.tag = "UnsignedBigInt" -> <<Zero, U64_MAX>>
  IN NumLeq(bounds[1], integer) /\ NumLeq(integer, bounds[2])

\* column_size counting the characters of a string, not its bytes
column_size_chars(data_type, value) ==
  CASE data_type.tag = "Bool" -> 1
    [] data_type.tag = "Varchar" /\ value.kind = "String" ->
         utf8_length_prefix_bytes(data_type.max) + Len(value.v)
    [] data_type.tag \in IntegerTags -> byte_length_of_integer_type(data_type)

\* the closure of size_of's map: the encoded size of column i.
\* (A Varchar column holding a value that is no String panics; the model's
\* tuples always match their schema's kinds.)
column_size(data_type, value) ==
  CASE data_type.tag = "Bool" -> 1
    [] data_type.tag = "Varchar" /\ value.kind = "String" ->
         utf8_length_prefix_bytes(data_type.max) + Len(as_bytes(value.v))
    [] data_type.tag \in IntegerTags -> byte_length_of_integer_type(data_type)

RECURSIVE SumSizes(_, _, _)
SumSizes(tuple, columns, i) ==
  IF i > Len(columns) THEN 0
  ELSE column_size(columns[i].data_type, tuple[i]) + SumSizes(tuple, columns, i + 1)

size_of(tuple, sch) == SumSizes(tuple, sch.columns, 1)

\* len > u32::MAX, written without a literal wider than TLC's integers
ExceedsU32(len) == (len \div 65536) >= 65536

Written(b) == [panic |-> "none", buf |-> b]

Panic(what) == [panic |-> what, buf |-> <<>>]

\* Returns the buffer after the value was appended, or the panic that
\* unwound out of the call.
serialize_value_into(b, data_type, value) ==
  IF data_type.tag = "Varchar" /\ value.kind = "String" THEN
    LET bytes == as_bytes(value.v)
        byte_length == usize_to_le_bytes(Len(bytes))
        length_prefix_bytes == utf8_length_prefix_bytes(data_type.max)
    IN IF ExceedsU32(Len(bytes)) THEN Panic("todo")
       ELSE Written(b \o SliceTo(byte_length, length_prefix_bytes) \o bytes)
  ELSE IF data_type.tag = "Bool" /\ value.kind = "Bool" THEN
    Written(Append(b, IF value.v THEN 1 ELSE 0))
  ELSE IF value.kind = "Number" THEN
    IF data_type.tag \notin IntegerTags THEN Panic("unreachable")
    ELSE IF ~integer_is_within_range(value.v, data_type) THEN Panic("assert")
    ELSE
      LET byte_length == byte_length_of_integer_type(data_type)
          big_endian_bytes == to_be_bytes(value.v)
      IN Written(b \o SliceFrom(big_endian_bytes, Len(big_endian_bytes) - byte_length))
  ELSE Panic("unreachable")

serialize_key(data_type, value) == serialize_value_into(<<>>, data_type, value)

RECURSIVE SerializeZip(_, _, _, _)
SerializeZip(columns, values, i, b) ==
  IF i > Min(Len(columns), Len(values)) THEN Written(b)
  ELSE
    LET r == serialize_value_into(b, columns[i].data_type, values[i]) IN
    IF r.panic # "none" THEN r
    ELSE SerializeZip(columns, values, i + 1, r.buf)

\* (The debug_assert_eq! on the two lengths is left out: every tuple of the
\* model has one value per column.)
serialize(sch, values) == SerializeZip(sch.columns, values, 1, <<>>)

\* read_exact behaving as read: whatever is left is returned, the rest of the
\* caller's buffer keeps its zeros
read_exact_partial(stream, p, n) ==
  LET end == Min(p + n, Len(stream)) IN
  [ok |-> TRUE, bytes |-> SubSeq(stream, p + 1, end) \o Zeros(p + n - end),
   pos |-> end]

\* io::Cursor's Read::read_exact: all n bytes or UnexpectedEof; a failed read
\* leaves the cursor at the end of the slice.
read_exact(stream, p, n) ==
  IF p + n <= Len(stream)
    THEN [ok |-> TRUE, bytes |-> SubSeq(stream, p + 1, p + n), pos |-> p + n]
    ELSE [ok |-> FALSE, bytes |-> <<>>, pos |-> Len(stream)]

ReadOk(value, p) == [status |-> "Ok", values |-> <<value>>, pos |-> p]

ReadErr(p) == [status |-> "Err", values |-> <<>>, pos |-> p]

ReadPanic(p) == [status |-> "Panic", values |-> <<>>, pos |-> p]

\* sign_extend without the adjustment for negative numbers
sign_extend_never(big_endian_buf, start_index, integer_type) == big_endian_buf

\* sign_extend that looks at the sign bit alone, not at the type
sign_extend_always(big_endian_buf, start_index, integer_type) ==
  IF big_endian_buf[start_index + 1] >= 128
    THEN Fill(start_index, U8Max) \o SliceFrom(big_endian_buf, start_index)
    ELSE big_endian_buf

\* the wide buffer handed to i128::from_be_bytes
sign_extend(big_endian_buf, start_index, integer_type) ==
  IF big_endian_buf[start_index + 1] >= 128 /\ integer_type.tag \in {"BigInt", "Int"}
    THEN Fill(start_index, U8Max) \o SliceFrom(big_endian_buf, start_index)
    ELSE big_endian_buf

\* the closure of read_from's map: one column read from the reader at p
read_column(stream, p, data_type) ==
  IF data_type.tag = "Varchar" THEN
    LET length_prefix_bytes == utf8_length_prefix_bytes(data_type.max)
        r1 == read_exact(stream, p, length_prefix_bytes)
    IN IF ~r1.ok THEN ReadErr(r1.pos)
       ELSE
         LET length_buffer == r1.bytes \o Zeros(UsizeBytes - length_prefix_bytes)
             length == usize_from_le_bytes(length_buffer)
             r2 == read_exact(stream, r1.pos, length)
         IN IF ~r2.ok THEN ReadErr(r2.pos)
            ELSE
              LET string == from_utf8(r2.bytes) IN
              IF string.ok THEN ReadOk(ValueString(string.string), r2.pos)
              ELSE ReadPanic(r2.pos)
  ELSE IF data_type.tag = "Bool" THEN
    LET r == read_exact(stream, p, 1) IN
    IF ~r.ok THEN ReadErr(r.pos)
    ELSE ReadOk(ValueBool(r.bytes[1] # 0), r.pos)
  ELSE
    LET byte_length == byte_length_of_integer_type(data_type)
        start_index == I128Bytes - byte_length
        r == read_exact(stream, p, byte_length)
    IN IF ~r.ok THEN ReadErr(r.pos)
       ELSE
         LET big_endian_buf == Zeros(start_index) \o r.bytes IN
         ReadOk(ValueNumber(from_be_bytes(
                  sign_extend(big_endian_buf, start_index, data_type))), r.pos)

RECURSIVE ReadColumns(_, _, _, _, _)
ReadColumns(stream, p, columns, i, acc) ==
  IF i > Len(columns) THEN [status |-> "Ok", values |-> acc, pos |-> p]
  ELSE
    LET r == read_column(stream, p, columns[i].data_type) IN
    IF r.status # "Ok" THEN r
    ELSE ReadColumns(stream, r.pos, columns, i + 1, acc \o r.values)

\* read_from(reader, schema), the reader being a cursor over stream at p
read_from(stream, p, sch) == ReadColumns(stream, p, sch.columns, 1, <<>>)

\* read_from(&mut io::Cursor::new(buf), schema).unwrap()
deserialize(b, sch) ==
  LET r == read_from(b, 0, sch) IN
  IF r.status = "Ok" THEN r ELSE ReadPanic(r.pos)

(***************************************************************************)
(* Inputs                                                                  *)
(***************************************************************************)
MaxRows == 2

MaxKeys == 2

Rep(c, n) == [i \in 1..n |-> c]

\* 'a', e-acute, the euro sign and an emoji (U+1F600): 1, 2, 3 and 4 bytes of
\* UTF-8
Mixed == <<97, 233, 8364, 128512>>

StringInputs ==
  {<<>>, <<97>>, Mixed, Rep(128512, 10), Rep(128512, 63), Rep(128512, 64)}

\* the strings given to a column, whatever its limit: the codec is handed
\* strings by its caller and does not look at their character count
ColumnStringInputs == StringInputs \cup {Rep(97, 256)}

IntValues == {I32_MIN, Neg(<<1>>), Zero, Pos(<<1>>), Pos(<<1, 0>>), I32_MAX}

UnsignedIntValues == {Zero, Pos(<<1>>), Pos(<<128, 0, 0, 0>>), U32_MAX}

BigIntValues ==
  {I64_MIN, I32_MIN, Neg(<<1>>), Zero, Pos(<<1>>), U32_MAX, I64_MAX}

UnsignedBigIntValues ==
  {Zero, Pos(<<1>>), Pos(<<128, 0, 0, 0, 0, 0, 0, 0>>), U64_MAX}

\* the values of the matching kind, the integers within the type's range
Values(data_type) ==
  CASE data_type.tag = "Bool" -> {ValueBool(b) : b \in BOOLEAN}
    [] data_type.tag = "Int" -> {ValueNumber(n) : n \in IntValues}
    [] data_type.tag = "UnsignedInt" -> {ValueNumber(n) : n \in UnsignedIntValues}
    [] data_type.tag = "BigInt" -> {ValueNumber(n) : n \in BigIntValues}
    [] data_type.tag = "UnsignedBigInt" ->
         {ValueNumber(n) : n \in UnsignedBigIntValues}
    [] data_type.tag = "Varchar" -> {ValueString(s) : s \in ColumnStringInputs}

RECURSIVE TuplesFrom(_, _)
TuplesFrom(columns, i) ==
  IF i > Len(columns) THEN {<<>>}
  ELSE {<<v>> \o rest : v \in Values(columns[i].data_type),
                        rest \in TuplesFrom(columns, i + 1)}

Tuples(sch) == TuplesFrom(sch.columns, 1)

\* the range of an integer type, as the numbers it can represent
InRange(n, tag) ==
  CASE tag = "Int" -> NumLeq(I32_MIN, n) /\ NumLeq(n, I32_MAX)
    [] tag = "UnsignedInt" -> NumLeq(Zero, n) /\ NumLeq(n, U32_MAX)
    [] tag = "BigInt" -> NumLeq(I64_MIN, n) /\ NumLeq(n, I64_MAX)
    [] tag = "UnsignedBigInt" -> NumLeq(Zero, n) /\ NumLeq(n, U64_MAX)

\* a value within the range of its column's type: an integer the type can
\* represent, a string of at most the declared number of characters
ValueWithinRange(value, data_type) ==
  CASE data_type.tag = "Bool" -> value.kind = "Bool"
    [] data_type.tag = "Varchar" ->
         value.kind = "String" /\ Len(value.v) <= data_type.max
    [] data_type.tag \in IntegerTags ->
         value.kind = "Number" /\ InRange(value.v, data_type.tag)

\* a valid tuple: one value within range per column
WithinRange(tuple, sch) ==
  /\ Len(tuple) = Len(sch.columns)
  /\ \A i \in 1..Len(tuple) : ValueWithinRange(tuple[i], sch.columns[i].data_type)

ValidTuples(sch) == {t \in Tuples(sch) : WithinRange(t, sch)}

SchemaOf(columns) == [columns |-> columns]

\* "id", "msg", "num", "ok", "c"
NameId == <<105, 100>>

NameMsg == <<109, 115, 103>>

NameNum == <<110, 117, 109>>

NameOk == <<111, 107>>

NameC == <<99>>

SingleColumn(data_type) == SchemaOf(<<Column(NameC, data_type)>>)

VarcharLimits == {10, 63, 64, 1000, 16383, 16384, 100000}

SingleColumnSchemas ==
  {SingleColumn(dt) : dt \in {DtBool, DtInt, DtUnsignedInt, DtBigInt, DtUnsignedBigInt}}
  \cup {SingleColumn(Varchar(m)) : m \in VarcharLimits}

\* the schema of the module documentation's example
DocSchema ==
  SchemaOf(<<Column(NameId, DtBigInt), Column(NameMsg, Varchar(255)),
             Column(NameNum, DtInt)>>)

MixedSchema ==
  SchemaOf(<<Column(NameNum, DtBigInt), Column(NameMsg, Varchar(10)),
             Column(NameOk, DtBool)>>)

Schemas == SingleColumnSchemas \cup {MixedSchema}

(***************************************************************************)
(* One cell: a tuple is serialized into a buffer, and then one call of     *)
(* size_of, deserialize or read_from is made on it, the decoders being     *)
(* handed the buffer or a leading part of it.  last is the call just made  *)
(* and what it returned.                                                   *)
(***************************************************************************)
Init ==
  /\ schema \in Schemas
  /\ rows = <<>>
  /\ buf = <<>>
  /\ pos = 0
  /\ out = <<>>
  /\ last = [op |-> "init"]

\* buf = serialize(schema, tuple)
Serialize(tuple) ==
  /\ rows = <<>>
  /\ LET r == serialize(schema, tuple) IN
       /\ buf' = r.buf
       /\ rows' = IF r.panic = "none" THEN <<tuple>> ELSE rows
       /\ last' = [op |-> "serialize", panic |-> r.panic]
  /\ UNCHANGED <<schema, pos, out>>

\* size_of(rows[k], schema)
SizeOf(k) ==
  /\ last.op = "serialize"
  /\ last' = [op |-> "size_of", row |-> k, size |-> size_of(rows[k], schema)]
  /\ UNCHANGED <<schema, rows, buf, pos, out>>

\* deserialize(&buf[..cut], schema)
Deserialize(cut) ==
  /\ last.op = "serialize"
  /\ LET r == deserialize(SliceTo(buf, cut), schema) IN
       last' = [op |-> "deserialize", cut |-> cut, status |-> r.status,
                values |-> r.values]
  /\ UNCHANGED <<schema, rows, buf, pos, out>>

\* read_from(&mut io::Cursor::new(&buf[..cut]), schema)
ReadFromSlice(cut) ==
  /\ last.op = "serialize"
  /\ LET r == read_from(SliceTo(buf, cut), 0, schema) IN
       last' = [op |-> "read_from", cut |-> cut, status |-> r.status,
                values |-> r.values, pos |-> r.pos]
  /\ UNCHANGED <<schema, rows, buf, pos, out>>

Next ==
  \/ \E tuple \in Tuples(schema) : Serialize(tuple)
  \/ \E k \in 1..Len(rows) : SizeOf(k)
  \/ \E cut \in 0..Len(buf) : Deserialize(cut)
  \/ \E cut \in 0..Len(buf) : ReadFromSlice(cut)

Spec == Init /\ [][Next]_vars

(***************************************************************************)
(* What the claims count with                                              *)
(***************************************************************************)
ClaimPrefixWidth(m) == IF m < 64 THEN 1 ELSE IF m < 16384 THEN 2 ELSE 4

ClaimCharBytes(c) ==
  IF c < 128 THEN 1 ELSE IF c < 2048 THEN 2 ELSE IF c < 65536 THEN 3 ELSE 4

RECURSIVE ClaimUtf8Len(_)
ClaimUtf8Len(string) ==
  IF Len(string) = 0 THEN 0
  ELSE IF Len(string) = 1 THEN ClaimCharBytes(string[1])
  ELSE LET half == Len(string) \div 2 IN
       ClaimUtf8Len(SliceTo(string, half)) + ClaimUtf8Len(SliceFrom(string, half))

ClaimColumnBytes(data_type, value) ==
  CASE data_type.tag = "Bool" -> 1
    [] data_type.tag \in {"Int", "UnsignedInt"} -> 4
    [] data_type.tag \in {"BigInt", "UnsignedBigInt"} -> 8
    [] data_type.tag = "Varchar" ->
         ClaimPrefixWidth(data_type.max) + ClaimUtf8Len(value.v)

RECURSIVE ClaimBytesFrom(_, _, _)
ClaimBytesFrom(tuple, columns, i) ==
  IF i > Len(columns) THEN 0
  ELSE ClaimColumnBytes(columns[i].data_type, tuple[i])
       + ClaimBytesFrom(tuple, columns, i + 1)

ClaimTupleBytes(tuple, sch) == ClaimBytesFrom(tuple, sch.columns, 1)

IsSingleVarchar(sch) ==
  Len(sch.columns) = 1 /\ sch.columns[1].data_type.tag = "Varchar"

(***************************************************************************)
(* Claims on one cell (Spec)                                               *)
(***************************************************************************)
\* C1: round trip. Deserializing the whole encoding of a tuple whose values
\* are of the matching kinds and within their types' ranges returns exactly
\* that tuple, for single-column and multi-column schemas.
C1_RoundTrip ==
  (last.op = "deserialize" /\ last.cut = Len(buf) /\ WithinRange(rows[1], schema))
    => (last.status = "Ok" /\ last.values = rows[1])

C1_Witness ==
  /\ schema = MixedSchema
  /\ last.op = "deserialize"
  /\ last.cut = Len(buf)
  /\ last.status = "Ok"
  /\ rows = <<<<ValueNumber(I64_MIN), ValueString(Mixed), ValueBool(TRUE)>>>>

\* C3: size_of(tuple, schema) is the number of bytes serialize produces:
\* 1 per Bool, 4 per Int/UnsignedInt, 8 per BigInt/UnsignedBigInt, prefix
\* width plus UTF-8 byte length per Varchar.
C3_SizeOfIsEncodedLength ==
  last.op = "size_of"
    => (last.size = Len(buf) /\ last.size = ClaimTupleBytes(rows[1], schema))

C3_Witness ==
  /\ schema = MixedSchema
  /\ last.op = "size_of"
  /\ rows[1][2] = ValueString(Mixed)
  /\ last.size = 20

C6_PrefixWidthSelection ==
  /\ \A i \in 1..Len(schema.columns) :
       LET dt == schema.columns[i].data_type IN
       dt.tag = "Varchar" =>
         /\ utf8_length_prefix_bytes(dt.max) = ClaimPrefixWidth(dt.max)
         /\ dt.max = 10 => utf8_length_prefix_bytes(dt.max) = 1
         /\ dt.max = 1000 => utf8_length_prefix_bytes(dt.max) = 2
         /\ dt.max = 100000 => utf8_length_prefix_bytes(dt.max) = 4
  /\ (IsSingleVarchar(schema) /\ rows # <<>>) =>
       LET w == ClaimPrefixWidth(schema.columns[1].data_type.max)
           N == ClaimUtf8Len(rows[1][1].v)
       IN /\ Len(buf) = w + N
          /\ last.op = "size_of" => last.size = w + N
          /\ (/\ last.op = "read_from"
              /\ last.cut = Len(buf)
              /\ WithinRange(rows[1], schema)) =>
               (last.status = "Ok" /\ last.pos = w + N /\ last.values = rows[1])

C6_Witness ==
  /\ schema = SingleColumn(Varchar(1000))
  /\ last.op = "read_from"
  /\ last.cut = Len(buf)
  /\ last.status = "Ok"
  /\ Len(buf) = 258

(***************************************************************************)
(* A stream of tuples: tuples of one schema are serialized back to back    *)
(* into buf, and read_from is called on a reader over buf again and again. *)
(***************************************************************************)
Hello == <<104, 101, 108, 108, 111>>

World == <<119, 111, 114, 108, 100>>

\* the tuples of the module documentation's example, and some more
DocTuples ==
  {<<ValueNumber(Pos(<<1>>)), ValueString(Hello), ValueNumber(Pos(<<2>>))>>,
   <<ValueNumber(Pos(<<2>>)), ValueString(World), ValueNumber(Pos(<<4>>))>>,
   <<ValueNumber(I64_MIN), ValueString(<<>>), ValueNumber(Neg(<<1>>))>>,
   <<ValueNumber(Neg(<<1>>)), ValueString(Mixed), ValueNumber(I32_MAX)>>}

StreamSchemas ==
  {SingleColumn(dt) : dt \in {DtBool, DtInt, DtUnsignedBigInt, Varchar(10), Varchar(64)}}
  \cup {DocSchema}

StreamTuples(sch) == IF sch = DocSchema THEN DocTuples ELSE ValidTuples(sch)

InitStream ==
  /\ schema \in StreamSchemas
  /\ rows = <<>>
  /\ buf = <<>>
  /\ pos = 0
  /\ out = <<>>
  /\ last = [op |-> "init"]

\* buf.extend(serialize(schema, tuple))
StreamWrite(tuple) ==
  /\ Len(rows) < MaxRows
  /\ LET r == serialize(schema, tuple) IN
       /\ buf' = buf \o r.buf
       /\ rows' = IF r.panic = "none" THEN Append(rows, tuple) ELSE rows
       /\ last' = [op |-> "serialize", panic |-> r.panic]
  /\ UNCHANGED <<schema, pos, out>>

\* read_from(&mut reader, schema), the reader standing at pos
StreamRead ==
  /\ LET r == read_from(buf, pos, schema) IN
       /\ pos' = r.pos
       /\ out' = IF r.status = "Ok" THEN Append(out, r.values) ELSE out
       /\ last' = [op |-> "read_from", start |-> pos, status |-> r.status]
  /\ UNCHANGED <<schema, rows, buf>>

NextStream ==
  \/ \E tuple \in StreamTuples(schema) : StreamWrite(tuple)
  \/ StreamRead

SpecStream == InitStream /\ [][NextStream]_vars

RECURSIVE ClaimSizeOfFirst(_, _, _)
ClaimSizeOfFirst(tuples, sch, k) ==
  IF k = 0 THEN 0
  ELSE ClaimSizeOfFirst(tuples, sch, k - 1) + size_of(tuples[k], sch)

\* C10: tuples encoded back to back with no per-tuple length prefix are
\* returned by successive read_from calls in order, and after the k-th call
\* the stream position is the sum of size_of of the first k tuples; a call
\* fails only when no tuple is left to read.
C10_BackToBack ==
  /\ Len(out) <= Len(rows)
  /\ \A k \in 1..Len(out) : out[k] = rows[k]
  /\ pos = ClaimSizeOfFirst(rows, schema, Len(out))
  /\ (last.op = "read_from" /\ last.status = "Ok")
       => pos - last.start = size_of(out[Len(out)], schema)
  /\ (last.op = "read_from" /\ last.status # "Ok")
       => (last.start = Len(buf) /\ Len(out) = Len(rows))

\* the second tuple of the documentation's example has just been read
C10_Witness ==
  /\ schema = DocSchema
  /\ Len(rows) = 2
  /\ Len(out) = 2
  /\ rows[1][2] = ValueString(Mixed)
  /\ rows[2][2] = ValueString(World)
  /\ last.op = "read_from"
  /\ last.start = 24
  /\ pos = 43

(***************************************************************************)
(* Keys: serialize_key on single values of a column type, among them       *)
(* integers outside the type's range and strings longer than the column    *)
(* admits. out holds what each call returned.                              *)
(***************************************************************************)
NumberInputs ==
  LET mags == {<<0>>, <<1>>, <<1, 0>>,
               <<127, 255, 255, 255>>, <<128, 0, 0, 0>>, <<128, 0, 0, 1>>,
               <<255, 255, 255, 255>>, <<1, 0, 0, 0, 0>>,
               <<127, 255, 255, 255, 255, 255, 255, 255>>,
               <<128, 0, 0, 0, 0, 0, 0, 0>>, <<128, 0, 0, 0, 0, 0, 0, 1>>,
               <<255, 255, 255, 255, 255, 255, 255, 255>>,
               <<1, 0, 0, 0, 0, 0, 0, 0, 0>>}
  IN {Pos(m) : m \in mags} \cup {Neg(m) : m \in mags \ {<<0>>}}

KeyStringInputs == StringInputs \cup {Rep(97, 255), Rep(97, 256), Rep(233, 128)}

KeyValues(data_type) ==
  IF data_type.tag = "Varchar"
    THEN {ValueString(s) : s \in KeyStringInputs}
    ELSE {ValueNumber(n) : n \in NumberInputs}

KeySchemas ==
  {SingleColumn(dt) : dt \in {DtInt, DtUnsignedInt, DtBigInt, DtUnsignedBigInt,
                               Varchar(10), Varchar(1000)}}

InitKey ==
  /\ schema \in KeySchemas
  /\ rows = <<>>
  /\ buf = <<>>
  /\ pos = 0
  /\ out = <<>>
  /\ last = [op |-> "init"]

\* serialize_key(&data_type, &value)
SerializeKey(value) ==
  /\ Len(rows) < MaxKeys
  /\ LET r == serialize_key(schema.columns[1].data_type, value) IN
       /\ rows' = Append(rows, value)
       /\ out' = Append(out, r)
       /\ buf' = r.buf
       /\ last' = [op |-> "serialize_key", panic |-> r.panic]
  /\ UNCHANGED <<schema, pos>>

NextKey == \E value \in KeyValues(schema.columns[1].data_type) : SerializeKey(value)

SpecKey == InitKey /\ [][NextKey]_vars

KeyType == schema.columns[1].data_type

\* C2 as stated: for a < b of one integer type, both within range,
\* serialize_key(a) is below serialize_key(b) byte by byte, also when a is
\* negative and b is not.
C2_KeyOrderPreserved ==
  KeyType.tag \in IntegerTags =>
    \A i, j \in 1..Len(rows) :
      (/\ InRange(rows[i].v, KeyType.tag)
       /\ InRange(rows[j].v, KeyType.tag)
       /\ NumLess(rows[i].v, rows[j].v))
        => LexLess(out[i].buf, out[j].buf)

\* C4 as stated: an integer outside the range of its column type makes the
\* encoder return an error: it does not abort and emits nothing.
C4_OutOfRangeIsRecoverableError ==
  KeyType.tag \in IntegerTags =>
    \A i \in 1..Len(rows) :
      ~InRange(rows[i].v, KeyType.tag)
        => (out[i].panic = "none" /\ out[i].buf = <<>>)

\* C4, amended: an integer outside the range of its column type fails the
\* encoder's assertion: the call panics before any byte of the value is
\* written, and the truncated low-order bytes are never emitted.
C4_OutOfRangePanics ==
  KeyType.tag \in IntegerTags =>
    \A i \in 1..Len(rows) :
      ~InRange(rows[i].v, KeyType.tag)
        => (out[i].panic = "assert" /\ out[i].buf = <<>>)

\* 2^31 into Int
C4_Witness ==
  /\ KeyType = DtInt
  /\ Len(rows) = 1
  /\ rows[1] = ValueNumber(Pos(<<128, 0, 0, 0>>))
  /\ out[1].panic = "assert"

\* the largest byte length a prefix of the given width can hold (a 4-byte
\* prefix holds every length the model reaches)
ClaimFitsPrefix(n, width) ==
  IF width = 1 THEN n <= 255 ELSE IF width = 2 THEN n <= 65535 ELSE TRUE

\* C8 as stated: the length prefix of an encoded text field, read little
\* endian, is the byte length of the payload after it, and a string too long
\* for the column's prefix width is rejected before any byte is written.
C8_TextPrefixIsByteLength ==
  KeyType.tag = "Varchar" =>
    \A i \in 1..Len(rows) :
      LET w == ClaimPrefixWidth(KeyType.max)
          N == ClaimUtf8Len(rows[i].v)
      IN IF ClaimFitsPrefix(N, w)
           THEN /\ out[i].panic = "none"
                /\ Len(out[i].buf) = w + N
                /\ LeValue(SliceTo(out[i].buf, w)) = N
           ELSE out[i].panic # "none" /\ out[i].buf = <<>>

(***************************************************************************)
(* Decoding: read_from on a single integer column over arbitrary bytes.    *)
(***************************************************************************)
ByteInputs(byte_length) ==
  IF byte_length = 4
    THEN [1..4 -> {0, 1, 127, 128, 255}]
    ELSE {<<a, f, f, f, b, f, f, c>> :
            a \in {0, 127, 128, 255}, b \in {0, 127, 128, 255},
            f \in {0, 255}, c \in {0, 1, 255}}

InitDecode ==
  /\ schema \in {SingleColumn(dt) :
                   dt \in {DtInt, DtUnsignedInt, DtBigInt, DtUnsignedBigInt}}
  /\ rows = <<>>
  /\ buf \in ByteInputs(byte_length_of_integer_type(schema.columns[1].data_type))
  /\ pos = 0
  /\ out = <<>>
  /\ last = [op |-> "init"]

NextDecode == StreamRead

SpecDecode == InitDecode /\ [][NextDecode]_vars

\* the n bytes as a two's complement number
ClaimSigned(bytes) ==
  IF bytes[1] >= 128 THEN Neg(Negate(bytes)) ELSE Pos(bytes)

\* the n bytes as an unsigned number
ClaimUnsigned(bytes) == Pos(bytes)

\* C9: decoding 4 or 8 big-endian bytes as a signed column gives their two's
\* complement value (the higher-order bytes of the wide buffer are all-ones
\* exactly when the top bit of the first byte is set), as an unsigned column
\* their unsigned value; the result lies within the type's range and encodes
\* back into the same bytes.
C9_SignHandling ==
  (last.op = "read_from" /\ last.start = 0) =>
    /\ last.status = "Ok"
    /\ Len(out) = 1
    /\ LET v == out[1][1].v
           wide == to_be_bytes(v)
           high == SliceTo(wide, I128Bytes - Len(buf))
           signed == KeyType.tag \in {"Int", "BigInt"}
       IN /\ out[1][1].kind = "Number"
          /\ v = IF signed THEN ClaimSigned(buf) ELSE ClaimUnsigned(buf)
          /\ SliceFrom(wide, I128Bytes - Len(buf)) = buf
          /\ (signed /\ buf[1] >= 128) => high = Fill(Len(high), 255)
          /\ ~(signed /\ buf[1] >= 128) => high = Zeros(Len(high))
          /\ InRange(v, KeyType.tag)
          /\ serialize_key(KeyType, out[1][1]) = Written(buf)

\* the minimum of BigInt
C9_Witness ==
  /\ KeyType = DtBigInt
  /\ buf = <<128, 0, 0, 0, 0, 0, 0, 0>>
  /\ last.op = "read_from"
  /\ last.start = 0
  /\ out = <<<<ValueNumber(I64_MIN)>>>>

(***************************************************************************)
(* tcp/proto.rs: the response packets.  The file declares the Response     *)
(* variants and documents their layout; the serializer itself is not part  *)
(* of it, and is written here after that description.                      *)
(***************************************************************************)
AsciiBang == 33

AsciiPlus == 43

AsciiMinus == 45

ResponseEmptySet(affected) == [variant |-> "EmptySet", affected |-> affected]

ResponseErr(message) == [variant |-> "Err", message |-> message]

ResponseQuerySet(sch, tuples) ==
  [variant |-> "QuerySet", schema |-> sch, tuples |-> tuples]

data_type_tag(data_type) ==
  CASE data_type.tag = "Bool" -> 0
    [] data_type.tag = "Int" -> 1
    [] data_type.tag = "UnsignedInt" -> 2
    [] data_type.tag = "BigInt" -> 3
    [] data_type.tag = "UnsignedBigInt" -> 4
    [] data_type.tag = "Varchar" -> 5

\* name length (2 bytes), name, type tag and, for VARCHAR, the limit (4 bytes)
serialize_column(column) ==
  LET name == as_bytes(column.name) IN
  LeDigits(Len(name), 2) \o name \o <<data_type_tag(column.data_type)>>
  \o (IF column.data_type.tag = "Varchar"
        THEN LeDigits(column.data_type.max, 4) ELSE <<>>)

RECURSIVE serialize_columns(_, _)
serialize_columns(columns, i) ==
  IF i > Len(columns) THEN <<>>
  ELSE serialize_column(columns[i]) \o serialize_columns(columns, i + 1)

RECURSIVE serialize_tuples(_, _, _)
serialize_tuples(sch, tuples, i) ==
  IF i > Len(tuples) THEN <<>>
  ELSE serialize(sch, tuples[i]).buf \o serialize_tuples(sch, tuples, i + 1)

\* the payload: the one byte ASCII prefix and what follows it
serialize_payload(response) ==
  CASE response.variant = "EmptySet" ->
         <<AsciiBang>> \o LeDigits(response.affected, 4)
    [] response.variant = "Err" ->
         <<AsciiMinus>> \o as_bytes(response.message)
    [] response.variant = "QuerySet" ->
         <<AsciiPlus>>
         \o LeDigits(Len(response.schema.columns), 2)
         \o serialize_columns(response.schema.columns, 1)
         \o LeDigits(Len(response.tuples), 4)
         \o serialize_tuples(response.schema, response.tuples, 1)

\* a header that counts its own 4 bytes too
payload_length_with_header(payload) == Len(payload) + 4

\* the number the header announces
payload_length(payload) == Len(payload)

\* the packet: the 4 byte little endian payload length, then the payload
serialize_response(response) ==
  LET payload == serialize_payload(response) IN
  LeDigits(payload_length(payload), 4) \o payload

SeqsUpTo(S, n) == UNION {[1..k -> S] : k \in 0..n}

AffectedInputs == {0, 1, 9, 255, 256, 65536, 16777217}

\* "bad", the documentation's message, and the empty message
TableTestDoesNotExist ==
  <<116, 97, 98, 108, 101, 32, 34, 116, 101, 115, 116, 34, 32, 100, 111, 101,
    115, 32, 110, 111, 116, 32, 101, 120, 105, 115, 116>>

MessageInputs == {<<>>, <<98, 97, 100>>, Mixed, TableTestDoesNotExist}

OkSchema == SchemaOf(<<Column(NameOk, DtBool)>>)

ProtoSchemas ==
  {DocSchema, OkSchema, SingleColumn(Varchar(10)), SingleColumn(DtUnsignedInt)}

InitProto ==
  /\ schema \in ProtoSchemas
  /\ rows = <<>>
  /\ buf = <<>>
  /\ pos = 0
  /\ out = <<>>
  /\ last = [op |-> "init"]

\* the statement produced no rows
RespondEmptySet(affected) ==
  /\ buf' = serialize_response(ResponseEmptySet(affected))
  /\ rows' = <<>>
  /\ last' = [op |-> "empty_set", affected |-> affected]
  /\ UNCHANGED <<schema, pos, out>>

\* the statement failed
RespondErr(message) ==
  /\ buf' = serialize_response(ResponseErr(message))
  /\ rows' = <<>>
  /\ last' = [op |-> "err", message |-> message]
  /\ UNCHANGED <<schema, pos, out>>

\* the statement produced the tuples
RespondQuerySet(tuples) ==
  /\ buf' = serialize_response(ResponseQuerySet(schema, tuples))
  /\ rows' = tuples
  /\ last' = [op |-> "query_set"]
  /\ UNCHANGED <<schema, pos, out>>

NextProto ==
  \/ \E affected \in AffectedInputs : RespondEmptySet(affected)
  \/ \E message \in MessageInputs : RespondErr(message)
  \/ \E tuples \in SeqsUpTo(StreamTuples(schema), MaxRows) : RespondQuerySet(tuples)

SpecProto == InitProto /\ [][NextProto]_vars

RECURSIVE ClaimColumnsBytes(_, _)
ClaimColumnsBytes(columns, i) ==
  IF i > Len(columns) THEN 0
  ELSE 2 + ClaimUtf8Len(columns[i].name) + 1
       + (IF columns[i].data_type.tag = "Varchar" THEN 4 ELSE 0)
       + ClaimColumnsBytes(columns, i + 1)

====
